---- MODULE Spec2Model ----
(* A model of the course_reg contract (src/lib.rs): school membership,      *)
(* courses with rosters, the registration-token ledger and the swap         *)
(* proposals with their counter-offers.  Every message of the contract is   *)
(* one action; a Mapping is a function whose DOMAIN is the set of keys the  *)
(* storage contains, and Mapping::insert writes through at once, so a       *)
(* message that returns an error keeps whatever it inserted before.         *)
EXTENDS Integers, Sequences, FiniteSets, TLC

\* ---------------------------------------------------------------- bounds
MaxTime == 1
MaxRegistrations == 2

\* ---------------------------------------------------------------- inputs
Account == {"a0", "a1"}
CourseId == {"c1", "c2"}
Capacities == {1, 2}
Timestamps == 0..MaxTime

VARIABLES
    owner,          \* CourseReg.owner
    school_members, \* CourseReg.school_members : AccountId -> isTeacher
    courses,        \* CourseReg.courses        : course id -> Course
    swaps,          \* CourseReg.swaps          : course id -> Vec<proposal>
    registrations,  \* CourseReg.registrations  : AccountId -> Vec<token>
    now,            \* the block timestamp the environment reports
    registered_ok,  \* history: per course, the register_to_course calls
                    \* that returned Ok
    last,           \* history: the observed message executed last and what
                    \* it returned
    trip,           \* history: the propose / counter / accept sequence that
                    \* is under way
    watch,          \* history: a registration that returned Ok, and what the
                    \* account's next registration to the course returned
    recreated       \* history: the course ids that create_course has
                    \* overwritten

tables == <<school_members, courses, swaps, registrations>>
vars == <<owner, school_members, courses, swaps, registrations, now,
          registered_ok, last, trip, watch, recreated>>

\* ------------------------------------------------------------ data types
\* A course built over the stored one: the roster of the id is kept.
CourseKeepingRoster(teacher, course_id, capacity, start_date) ==
    [teacher |-> teacher, course_id |-> course_id, capacity |-> capacity,
     registrations |-> IF course_id \in DOMAIN courses
                       THEN courses[course_id].registrations ELSE <<>>,
     start_date |-> start_date]

Course(teacher, course_id, capacity, start_date) ==
    [teacher |-> teacher, course_id |-> course_id, capacity |-> capacity,
     registrations |-> <<>>, start_date |-> start_date]

CourseRegistration(o, course_id) == [owner |-> o, course_id |-> course_id]

CourseRegistrationSwapProposal(offer) ==
    [offer |-> offer, counter_offers |-> <<>>]

\* ------------------------------------------------- Mapping and Vec helpers
\* Mapping::insert: the key is in the storage afterwards, with the new value.
Insert(m, k, v) == [x \in (DOMAIN m) \cup {k} |-> IF x = k THEN v ELSE m[x]]

\* Vec::remove(i): the elements after i shift left, the order is kept.
Remove(s, i) == SubSeq(s, 1, i - 1) \o SubSeq(s, i + 1, Len(s))

\* Iterator::position: the first index whose element satisfies the test,
\* 0 for None.
FirstIn(idx) == IF idx = {} THEN 0 ELSE CHOOSE i \in idx : \A j \in idx : i <= j

PositionOfCourse(regs, course_id) ==
    FirstIn({i \in 1..Len(regs) : regs[i].course_id = course_id})

\* A slip in the lookup of a proposal: the owner of the offer is not tested.
PositionOfOfferAnyOwner(proposals, o) == FirstIn(1..Len(proposals))

\* A slip in the lookup of a proposal: the last match where the contract
\* takes the first.
PositionOfLastOfferOwner(proposals, o) ==
    LET own == {i \in 1..Len(proposals) : proposals[i].offer.owner = o}
    IN IF own = {} THEN 0 ELSE CHOOSE i \in own : \A j \in own : j <= i

PositionOfOfferOwner(proposals, o) ==
    FirstIn({i \in 1..Len(proposals) : proposals[i].offer.owner = o})

\* A slip in the lookup of a counter-offer: its course is not tested.
PositionOfCounterAnyCourse(counter_offers, o, course_id) ==
    FirstIn({i \in 1..Len(counter_offers) : counter_offers[i].owner = o})

PositionOfCounter(counter_offers, o, course_id) ==
    FirstIn({i \in 1..Len(counter_offers) :
                /\ counter_offers[i].owner = o
                /\ counter_offers[i].course_id = course_id})

PositionOfAccount(accs, a) == FirstIn({i \in 1..Len(accs) : accs[i] = a})

\* Vec::contains
Contains(accs, a) == \E i \in 1..Len(accs) : accs[i] = a

\* --------------------------------------------------------------- queries
\* A slip in the owner test: any member passes.
is_owner_any_member(caller) == caller \in DOMAIN school_members

is_owner(caller) == caller = owner

is_school_member_inner(account) == account \in DOMAIN school_members

\* A slip in the teacher test: the role of the member is not read.
is_teacher_inner_any_member(account) == account \in DOMAIN school_members

is_teacher_inner(account) ==
    IF account \in DOMAIN school_members THEN school_members[account] ELSE FALSE

get_own_registrations(caller) ==
    IF caller \notin DOMAIN registrations \/ Len(registrations[caller]) = 0
    THEN [res |-> "NoRegistrations", val |-> <<>>]
    ELSE [res |-> "Ok", val |-> registrations[caller]]

get_course_info(course_id) ==
    IF course_id \notin DOMAIN courses THEN "NonexistentCourse" ELSE "Ok"

\* ------------------------------------------------------------------ Init
\* CourseReg::new(owner): the owner is the first member, a teacher.
Init ==
    /\ owner = "a0"
    /\ school_members = [a \in {owner} |-> TRUE]
    /\ courses = [c \in {} |-> 0]
    /\ swaps = [c \in {} |-> 0]
    /\ registrations = [a \in {} |-> 0]
    /\ now = 0
    /\ registered_ok = [c \in CourseId |-> 0]
    /\ last = [op |-> "none", res |-> "none", dropped |-> <<>>]
    /\ trip = [step |-> 0]
    /\ watch = [state |-> "idle"]
    /\ recreated = {}

\* ------------------------------------------------------------- admission
admit_result(caller) ==
    IF ~is_owner(caller) THEN "InsufficientPermissions" ELSE "Ok"

admit_as_teacher(caller, account) ==
    /\ school_members' = IF admit_result(caller) = "Ok"
                         THEN Insert(school_members, account, TRUE)
                         ELSE school_members
    /\ UNCHANGED <<owner, courses, swaps, registrations, now>>

admit_as_student(caller, account) ==
    /\ school_members' = IF admit_result(caller) = "Ok"
                         THEN Insert(school_members, account, FALSE)
                         ELSE school_members
    /\ UNCHANGED <<owner, courses, swaps, registrations, now>>

\* ---------------------------------------------------------- create_course
create_course_result(caller) ==
    IF ~is_teacher_inner(caller) THEN "InsufficientPermissions" ELSE "Ok"

create_course(caller, course_id, course_cap, course_start) ==
    /\ courses' = IF create_course_result(caller) = "Ok"
                  THEN Insert(courses, course_id,
                              Course(caller, course_id, course_cap, course_start))
                  ELSE courses
    /\ UNCHANGED <<owner, school_members, swaps, registrations, now>>

\* ----------------------------------------------------- register_to_course
\* A slip in the capacity test: > where the contract has >=.
CapacityFullOffByOne(course) == Len(course.registrations) > course.capacity

CapacityFull(course) == Len(course.registrations) >= course.capacity

\* A slip in the roster test: the caller is never found.
IsRegisteredNever(course, caller) == FALSE

IsRegistered(course, caller) == Contains(course.registrations, caller)

\* The start-date test one tick late: the start date itself still open.
AlreadyStartedAfterStartDate(course) == course.start_date < now

\* The test of lines 181-183: the course starts now or has started.
AlreadyStarted(course) == course.start_date <= now

\* A slip in the order of the checks: the roster test before the capacity
\* test.
register_to_course_result_roster_first(caller, course_id) ==
    IF ~is_school_member_inner(caller) THEN "InsufficientPermissions"
    ELSE IF course_id \notin DOMAIN courses THEN "NonexistentCourse"
    ELSE IF IsRegistered(courses[course_id], caller) THEN "AlreadyRegistered"
    ELSE IF CapacityFull(courses[course_id]) THEN "CourseCapacityFull"
    ELSE IF AlreadyStarted(courses[course_id]) THEN "CourseAlreadyStarted"
    ELSE "Ok"

register_to_course_result(caller, course_id) ==
    IF ~is_school_member_inner(caller) THEN "InsufficientPermissions"
    ELSE IF course_id \notin DOMAIN courses THEN "NonexistentCourse"
    ELSE IF CapacityFull(courses[course_id]) THEN "CourseCapacityFull"
    ELSE IF IsRegistered(courses[course_id], caller) THEN "AlreadyRegistered"
    ELSE IF AlreadyStarted(courses[course_id]) THEN "CourseAlreadyStarted"
    ELSE "Ok"

\* A slip in add_registration: the token is pushed twice.
add_registration_twice(regs, course_id, o) ==
    IF o \notin DOMAIN regs
    THEN Insert(regs, o, <<CourseRegistration(o, course_id),
                           CourseRegistration(o, course_id)>>)
    ELSE Insert(regs, o, regs[o] \o <<CourseRegistration(o, course_id),
                                      CourseRegistration(o, course_id)>>)

\* add_registration on a ledger regs: the token goes to the end of the
\* owner's list, which is created when the owner has none.
add_registration(regs, course_id, o) ==
    IF o \notin DOMAIN regs
    THEN Insert(regs, o, <<CourseRegistration(o, course_id)>>)
    ELSE Insert(regs, o, Append(regs[o], CourseRegistration(o, course_id)))

register_to_course(caller, course_id) ==
    LET res == register_to_course_result(caller, course_id) IN
    /\ IF res = "Ok"
       THEN /\ courses' = Insert(courses, course_id,
                    [courses[course_id] EXCEPT
                        !.registrations = Append(@, caller)])
            /\ registrations' = add_registration(registrations, course_id, caller)
       ELSE UNCHANGED <<courses, registrations>>
    /\ UNCHANGED <<owner, school_members, swaps, now>>

\* ------------------------------------------------------------ propose_swap
\* A slip in the escrow: the token is read but left in the list.
EscrowKeepsToken(regs, pos) == regs

\* registrations.remove(course): the list the caller keeps once the token
\* at pos is taken out of it.
Escrow(regs, pos) == Remove(regs, pos)

propose_swap_result(caller, course_id) ==
    IF caller \notin DOMAIN registrations THEN "NoSwappableRegistrations"
    ELSE IF PositionOfCourse(registrations[caller], course_id) = 0
         THEN "NoSwappableRegistrations"
    ELSE "Ok"

\* A slip in add_proposal: the proposal goes to the front of the list.
add_proposal_at_front(sw, course_id, proposal) ==
    IF course_id \notin DOMAIN sw
    THEN Insert(sw, course_id, <<proposal>>)
    ELSE Insert(sw, course_id, <<proposal>> \o sw[course_id])

\* add_proposal on a proposal table sw: the proposal goes to the end of the
\* course's list, which is created when the course has none.
add_proposal(sw, course_id, proposal) ==
    IF course_id \notin DOMAIN sw
    THEN Insert(sw, course_id, <<proposal>>)
    ELSE Insert(sw, course_id, Append(sw[course_id], proposal))

propose_swap(caller, course_id) ==
    LET res == propose_swap_result(caller, course_id) IN
    /\ IF res = "Ok"
       THEN LET regs == registrations[caller]
                pos == PositionOfCourse(regs, course_id)
            IN /\ registrations' = Insert(registrations, caller, Escrow(regs, pos))
               /\ swaps' = add_proposal(swaps, course_id,
                              CourseRegistrationSwapProposal(regs[pos]))
       ELSE UNCHANGED <<registrations, swaps>>
    /\ UNCHANGED <<owner, school_members, courses, now>>

\* --------------------------------------------------- counter_swap_proposal
\* What the message returns and what it leaves in the two tables it writes.
\* The caller's token is taken out of the ledger (line 303) before the
\* proposal is looked up, and the two later returns keep that write.
counter_swap_proposal_outcome(caller, course_id, offerer, counter_course_id) ==
    LET caller_regs == get_own_registrations(caller) IN
    IF caller_regs.res # "Ok"
    THEN [res |-> "NoProposedSwap", registrations |-> registrations,
          swaps |-> swaps]
    ELSE
    LET exchange_course == PositionOfCourse(caller_regs.val, counter_course_id) IN
    IF exchange_course = 0
    THEN [res |-> "NoProposedSwap", registrations |-> registrations,
          swaps |-> swaps]
    ELSE
    LET token == caller_regs.val[exchange_course]
        regs1 == Insert(registrations, caller,
                        Remove(caller_regs.val, exchange_course))
    IN
    IF course_id \notin DOMAIN swaps
    THEN [res |-> "NoProposedSwap", registrations |-> regs1, swaps |-> swaps]
    ELSE
    LET proposals == swaps[course_id]
        found_prop == PositionOfOfferOwner(proposals, offerer)
    IN
    IF found_prop = 0
    THEN [res |-> "NoProposedSwap", registrations |-> regs1, swaps |-> swaps]
    ELSE [res |-> "Ok", registrations |-> regs1,
          swaps |-> Insert(swaps, course_id,
                      [proposals EXCEPT ![found_prop].counter_offers =
                                            Append(@, token)])]

counter_swap_proposal(caller, course_id, offerer, counter_course_id) ==
    LET out == counter_swap_proposal_outcome(caller, course_id, offerer,
                                             counter_course_id) IN
    /\ registrations' = out.registrations
    /\ swaps' = out.swaps
    /\ UNCHANGED <<owner, school_members, courses, now>>

\* ---------------------------------------------------- accept_counter_offer
\* replace_registration_in_reg_list on a course table cs.  The course is
\* read into the local replace_in, the entry is replaced in that copy, and
\* the copy is dropped when the function returns: nothing is inserted back,
\* so the course table this returns is the one it was given.
\* The function with the write it lacks: the edited course is stored.
replace_registration_stored(cs, course_id, replace, with) ==
    IF course_id \notin DOMAIN cs
    THEN [res |-> "NoProposedSwap", courses |-> cs]
    ELSE IF PositionOfAccount(cs[course_id].registrations, replace) = 0
    THEN [res |-> "NoProposedSwap", courses |-> cs]
    ELSE [res |-> "Ok",
          courses |-> Insert(cs, course_id,
              [cs[course_id] EXCEPT
                 !.registrations[PositionOfAccount(
                     cs[course_id].registrations, replace)] = with])]

replace_registration_in_reg_list(cs, course_id, replace, with) ==
    IF course_id \notin DOMAIN cs
    THEN [res |-> "NoProposedSwap", courses |-> cs]
    ELSE IF PositionOfAccount(cs[course_id].registrations, replace) = 0
    THEN [res |-> "NoProposedSwap", courses |-> cs]
    ELSE [res |-> "Ok", courses |-> cs]

\* A slip in the removal of the proposal: the list is stored as it was.
TakeProposalKeepsIt(proposals, found_prop) == proposals

\* proposals.remove(proposal_ind) of line 347: the list without the caller's
\* proposal, which line 348 stores.
TakeProposal(proposals, found_prop) == Remove(proposals, found_prop)

\* What the message returns and what it leaves in the three tables it writes.
accept_counter_offer_outcome(caller, offered_course_id, accepted_course_id, accepted_owner) ==
    LET unchanged(res) == [res |-> res, swaps |-> swaps,
                           registrations |-> registrations,
                           courses |-> courses]
    IN
    IF offered_course_id \notin DOMAIN swaps THEN unchanged("NoProposedSwap")
    ELSE
    LET proposals == swaps[offered_course_id]
        found_prop == PositionOfOfferOwner(proposals, caller)
    IN
    IF found_prop = 0 THEN unchanged("NoProposedSwap")
    ELSE
    LET prop == proposals[found_prop]
        swaps1 == Insert(swaps, offered_course_id,
                         TakeProposal(proposals, found_prop))
        found_counter == PositionOfCounter(prop.counter_offers, accepted_owner,
                                           accepted_course_id)
    IN
    IF found_counter = 0
    THEN [res |-> "NoProposedSwap", swaps |-> swaps1,
          registrations |-> registrations, courses |-> courses]
    ELSE
    LET counter == prop.counter_offers[found_counter]
        regs1 == add_registration(
                    add_registration(registrations, accepted_course_id, caller),
                    offered_course_id, counter.owner)
        rep1 == replace_registration_in_reg_list(courses, accepted_course_id,
                                                 accepted_owner, caller)
        rep2 == replace_registration_in_reg_list(rep1.courses, offered_course_id,
                                                 caller, accepted_owner)
    IN
    IF counter.owner # accepted_owner
    THEN [res |-> "NoProposedSwap", swaps |-> swaps1,
          registrations |-> registrations, courses |-> courses]
    ELSE IF rep1.res # "Ok"
    THEN [res |-> rep1.res, swaps |-> swaps1, registrations |-> regs1,
          courses |-> rep1.courses]
    ELSE [res |-> rep2.res, swaps |-> swaps1, registrations |-> regs1,
          courses |-> rep2.courses]

accept_counter_offer(caller, offered_course_id, accepted_course_id, accepted_owner) ==
    LET out == accept_counter_offer_outcome(caller, offered_course_id,
                                            accepted_course_id, accepted_owner) IN
    /\ swaps' = out.swaps
    /\ registrations' = out.registrations
    /\ courses' = out.courses
    /\ UNCHANGED <<owner, school_members, now>>

\* ------------------------------------------------------------- the clock
\* Self::env().block_timestamp() never goes back between two messages.
AdvanceTime ==
    /\ now < MaxTime
    /\ now' = now + 1
    /\ UNCHANGED <<owner, school_members, courses, swaps, registrations>>

\* --------------------------------------------------------------- history
\* What the history variables record of a call; they are read by no action.
Call(op, caller, c1, c2, acc, res) ==
    [op |-> op, caller |-> caller, c1 |-> c1, c2 |-> c2, acc |-> acc,
     res |-> res]

NoCall == [op |-> "none", res |-> "none", dropped |-> <<>>]

LedgerOf(a) == IF a \in DOMAIN registrations THEN registrations[a] ELSE <<>>

ProposalsOf(c) == IF c \in DOMAIN swaps THEN swaps[c] ELSE <<>>

TotalRegistered == registered_ok["c1"] + registered_ok["c2"]

\* A holds exactly one active token, for C1, B exactly one, for C2, and A
\* has no pending proposal on C1.
RoundTripReady(A, C1, B, C2) ==
    /\ A # B /\ C1 # C2
    /\ LedgerOf(A) = <<CourseRegistration(A, C1)>>
    /\ LedgerOf(B) = <<CourseRegistration(B, C2)>>
    /\ PositionOfOfferOwner(ProposalsOf(C1), A) = 0

\* trip follows propose_swap(C1) by A, counter_swap_proposal(C1, A, C2) by B,
\* accept_counter_offer(C1, C2, B) by A, called one after the other from a
\* state where RoundTripReady holds; any other call ends the sequence.
TripAfter(call) ==
    LET started == {[step |-> 1, A |-> call.caller, C1 |-> call.c1, B |-> B,
                     C2 |-> C2, ok |-> call.res = "Ok"] :
                       <<B, C2>> \in {p \in Account \X CourseId :
                           RoundTripReady(call.caller, call.c1, p[1], p[2])}}
    IN
    IF call.op = "propose_swap" /\ started # {} THEN started
    ELSE IF /\ trip.step = 1
            /\ call.op = "counter_swap_proposal"
            /\ call.caller = trip.B /\ call.c1 = trip.C1
            /\ call.acc = trip.A /\ call.c2 = trip.C2
    THEN {[trip EXCEPT !.step = 2, !.ok = @ /\ call.res = "Ok"]}
    ELSE IF /\ trip.step = 2
            /\ call.op = "accept_counter_offer"
            /\ call.caller = trip.A /\ call.c1 = trip.C1
            /\ call.c2 = trip.C2 /\ call.acc = trip.B
    THEN {[trip EXCEPT !.step = 3, !.ok = @ /\ call.res = "Ok"]}
    ELSE {[step |-> 0]}

\* watch follows one register_to_course(c) by a that returned Ok up to the
\* next register_to_course(c) by a, and then holds what that call returned
\* until the next call; recreated says whether create_course stored a new
\* course under c in between, full whether the roster was full at the call.
\* No message tells one course id from another, so the registration
\* followed is one to c1.
WatchAfter(call) ==
    LET same == /\ watch.state = "pending"
                /\ call.op = "register_to_course"
                /\ call.caller = watch.a /\ call.c1 = watch.c
        resolved == [state |-> "resolved", a |-> watch.a, c |-> watch.c,
                     recreated |-> watch.recreated,
                     full |-> IF call.c1 \in DOMAIN courses
                              THEN Len(courses[call.c1].registrations)
                                     >= courses[call.c1].capacity
                              ELSE FALSE,
                     res |-> call.res]
        fresh == [state |-> "pending", a |-> call.caller, c |-> call.c1,
                  recreated |-> FALSE]
        kept == IF watch.state = "pending"
                THEN IF /\ call.op = "create_course" /\ call.res = "Ok"
                        /\ call.c1 = watch.c
                     THEN [watch EXCEPT !.recreated = TRUE]
                     ELSE watch
                ELSE [state |-> "idle"]
    IN
    IF same THEN {resolved}
    ELSE IF /\ call.op = "register_to_course" /\ call.res = "Ok"
            /\ call.c1 = "c1"
    THEN {fresh, kept}
    ELSE {kept}

\* The counter-offers that a successful accept_counter_offer leaves behind
\* in the proposal it removes: all but the accepted one.
DroppedBy(call) ==
    IF call.op = "accept_counter_offer" /\ call.res = "Ok"
    THEN LET proposals == swaps[call.c1]
             prop == proposals[PositionOfOfferOwner(proposals, call.caller)]
         IN Remove(prop.counter_offers,
                   PositionOfCounter(prop.counter_offers, call.acc, call.c2))
    ELSE <<>>

Observe(In, call) ==
    /\ registered_ok' =
          IF call.op = "register_to_course" /\ call.res = "Ok"
          THEN [registered_ok EXCEPT ![call.c1] = @ + 1]
          ELSE registered_ok
    /\ last' = IF call.op \in In.observed
               THEN [op |-> call.op, res |-> call.res,
                     dropped |-> DroppedBy(call)]
               ELSE NoCall
    /\ trip' \in (IF In.trips THEN TripAfter(call) ELSE {trip})
    /\ watch' \in (IF In.watches THEN WatchAfter(call) ELSE {watch})
    /\ recreated' =
          IF /\ In.recreations
             /\ call.op = "create_course" /\ call.res = "Ok"
             /\ call.c1 \in DOMAIN courses
          THEN recreated \cup {call.c1}
          ELSE recreated

\* ------------------------------------------------------------------ Next
\* One step: any account sends any message; the arguments come from the
\* sets of the record In.  The successful registrations are counted up to
\* In.max_registrations; with In.once the teachers keep the course ids
\* distinct, so that no stored course is created again.
NextOn(In) ==
    \/ \E caller \in Account, account \in In.teachers :
          /\ admit_as_teacher(caller, account)
          /\ Observe(In, Call("admit_as_teacher", caller, "-", "-", account,
                              admit_result(caller)))
    \/ \E caller \in Account, account \in In.students :
          /\ admit_as_student(caller, account)
          /\ Observe(In, Call("admit_as_student", caller, "-", "-", account,
                              admit_result(caller)))
    \/ \E caller \in Account, course_id \in CourseId,
          course_cap \in In.capacities, course_start \in In.start_dates :
          /\ In.once => course_id \notin DOMAIN courses
          /\ create_course(caller, course_id, course_cap, course_start)
          /\ Observe(In, Call("create_course", caller, course_id, "-", "-",
                              create_course_result(caller)))
    \/ \E caller \in Account, course_id \in CourseId :
          /\ register_to_course_result(caller, course_id) = "Ok"
                => TotalRegistered < In.max_registrations
          /\ register_to_course(caller, course_id)
          /\ Observe(In, Call("register_to_course", caller, course_id, "-", "-",
                              register_to_course_result(caller, course_id)))
    \/ \E caller \in Account, course_id \in CourseId :
          /\ propose_swap(caller, course_id)
          /\ Observe(In, Call("propose_swap", caller, course_id, "-", "-",
                              propose_swap_result(caller, course_id)))
    \/ \E caller \in Account, course_id \in CourseId, offerer \in Account,
          counter_course_id \in CourseId :
          /\ counter_swap_proposal(caller, course_id, offerer, counter_course_id)
          /\ Observe(In, Call("counter_swap_proposal", caller, course_id,
                              counter_course_id, offerer,
                              counter_swap_proposal_outcome(caller, course_id,
                                  offerer, counter_course_id).res))
    \/ \E caller \in Account, offered_course_id \in CourseId,
          accepted_course_id \in CourseId, accepted_owner \in Account :
          /\ accept_counter_offer(caller, offered_course_id, accepted_course_id,
                                  accepted_owner)
          /\ Observe(In, Call("accept_counter_offer", caller, offered_course_id,
                              accepted_course_id, accepted_owner,
                              accept_counter_offer_outcome(caller,
                                  offered_course_id, accepted_course_id,
                                  accepted_owner).res))
    \/ /\ AdvanceTime
       /\ UNCHANGED <<registered_ok, last, trip, watch, recreated>>

\* The school of the swap scenarios: the owner a0 teaches, a1 studies.
SwapInputs ==
    [teachers |-> {"a0"}, students |-> {"a1"},
     capacities |-> Capacities, start_dates |-> {MaxTime},
     max_registrations |-> MaxRegistrations, once |-> FALSE,
     observed |-> {}, trips |-> FALSE, watches |-> FALSE,
     recreations |-> FALSE]

Next == NextOn(SwapInputs)

Spec == Init /\ [][Next]_vars

\* The same school with every course id created once, which leaves room for
\* one registration more, and the round trip followed.
NextOnce ==
    NextOn([SwapInputs EXCEPT !.max_registrations = MaxRegistrations + 1,
                              !.once = TRUE, !.trips = TRUE])

SpecOnce == Init /\ [][NextOnce]_vars

\* The same school, with one registration followed.
NextRegister ==
    NextOn([SwapInputs EXCEPT !.watches = TRUE])

SpecRegister == Init /\ [][NextRegister]_vars

\* The school of SpecOnce with the accept_counter_offer calls recorded.
NextAccept ==
    NextOn([SwapInputs EXCEPT !.max_registrations = MaxRegistrations + 1,
                              !.once = TRUE,
                              !.observed = {"accept_counter_offer"}])

SpecAccept == Init /\ [][NextAccept]_vars

\* A school where the owner admits any account in either role, also itself,
\* with courses of one seat and one registration less.
NextSchool ==
    NextOn([SwapInputs EXCEPT !.teachers = Account, !.students = Account,
                              !.capacities = {1},
                              !.max_registrations = MaxRegistrations - 1])

SpecSchool == Init /\ [][NextSchool]_vars

\* The school of Spec with courses that start at any time of the clock,
\* every course id created once, one registration less, and the
\* register_to_course calls recorded.
NextStarted ==
    NextOn([SwapInputs EXCEPT !.start_dates = Timestamps, !.once = TRUE,
                              !.max_registrations = MaxRegistrations - 1,
                              !.observed = {"register_to_course"}])

SpecStarted == Init /\ [][NextStarted]_vars

\* A school where either account may teach and create a course again, with
\* either capacity, and with one registration less.
NextCreate ==
    NextOn([SwapInputs EXCEPT !.teachers = Account,
                              !.max_registrations = MaxRegistrations - 1])

SpecCreate == Init /\ [][NextCreate]_vars

\* The school of Spec with the overwritten course ids recorded.
NextRecreate == NextOn([SwapInputs EXCEPT !.recreations = TRUE])

SpecRecreate == Init /\ [][NextRecreate]_vars

\* ---------------------------------------------------- tokens in the system
Roster(c) == courses[c].registrations

\* The positions that hold a token: in a ledger list, as the offer of a
\* pending proposal, as a counter-offer of a pending proposal.
LedgerSlots ==
    UNION {{<<a, i>> : i \in 1..Len(LedgerOf(a))} : a \in Account}

OfferSlots ==
    UNION {{<<k, i>> : i \in 1..Len(ProposalsOf(k))} : k \in CourseId}

CounterSlots ==
    UNION {{<<s[1], s[2], j>> :
              j \in 1..Len(ProposalsOf(s[1])[s[2]].counter_offers)} :
           s \in OfferSlots}

LedgerToken(s) == LedgerOf(s[1])[s[2]]
OfferToken(s) == ProposalsOf(s[1])[s[2]].offer
CounterToken(s) == ProposalsOf(s[1])[s[2]].counter_offers[s[3]]

LedgerCount == Cardinality(LedgerSlots)
EscrowCount == Cardinality(OfferSlots) + Cardinality(CounterSlots)
TotalTokens == LedgerCount + EscrowCount

\* The tokens for course c, wherever they are.
TokensFor(c) ==
    Cardinality({s \in LedgerSlots : LedgerToken(s).course_id = c})
    + Cardinality({s \in OfferSlots : OfferToken(s).course_id = c})
    + Cardinality({s \in CounterSlots : CounterToken(s).course_id = c})

InLedger(a, c) ==
    \E i \in 1..Len(LedgerOf(a)) : LedgerOf(a)[i] = CourseRegistration(a, c)

InEscrow(a, c) ==
    \/ \E s \in OfferSlots : OfferToken(s) = CourseRegistration(a, c)
    \/ \E s \in CounterSlots : CounterToken(s) = CourseRegistration(a, c)

\* ------------------------------------------------------------------ claims
\* C1: in every reachable state every stored course has at most capacity
\* roster entries and no account twice in its roster.
C1_RosterWithinCapacity ==
    \A c \in DOMAIN courses :
        /\ Len(Roster(c)) <= courses[c].capacity
        /\ \A i, j \in 1..Len(Roster(c)) : Roster(c)[i] = Roster(c)[j] => i = j

\* C1 witness: two accounts have registered to a course of capacity 2,
\* which is full.
C1_Witness ==
    \E c \in DOMAIN courses :
        /\ courses[c].capacity = 2 /\ Len(Roster(c)) = 2
        /\ registered_ok[c] = 2

\* C2 as claimed: an account is in a stored course's roster exactly when a
\* token of that account for that course is in its ledger list or in escrow.
C2_RosterLedgerAgree ==
    \A c \in DOMAIN courses : \A a \in Account :
        Contains(Roster(c), a) <=> (InLedger(a, c) \/ InEscrow(a, c))

\* The roster rs with its first entry equal to old replaced by new.
Replaced(rs, old, new) ==
    IF PositionOfAccount(rs, old) = 0 THEN rs
    ELSE [rs EXCEPT ![PositionOfAccount(rs, old)] = new]

AcceptArgs == Account \X CourseId \X CourseId \X Account

\* C3 as claimed: a successful accept_counter_offer(offered, accepted,
\* acceptedOwner) by caller leaves caller where acceptedOwner was in the
\* stored roster of accepted and acceptedOwner where caller was in the
\* stored roster of offered, the rest of both rosters as it was.
C3_AcceptReplacesRosterEntries ==
    [][\A x \in AcceptArgs :
        LET caller == x[1]  offered == x[2]  accepted == x[3]  acc == x[4]
            mid == IF offered = accepted
                   THEN Replaced(Roster(accepted), acc, caller)
                   ELSE Roster(offered)
        IN
        (/\ accept_counter_offer(caller, offered, accepted, acc)
         /\ accept_counter_offer_outcome(caller, offered, accepted, acc).res
               = "Ok")
        => /\ offered # accepted =>
                courses'[accepted].registrations
                    = Replaced(Roster(accepted), acc, caller)
           /\ courses'[offered].registrations = Replaced(mid, caller, acc)
      ]_vars

\* C4 as claimed: the three calls of a round trip started where
\* RoundTripReady holds all return Ok, and after the third A's ledger list
\* holds a token for C2 and none for C1, B's a token for C1 and none for C2,
\* and neither original token is in a proposal.
C4_RoundTrip ==
    trip.step >= 1 =>
        /\ trip.ok
        /\ trip.step = 3 =>
            /\ PositionOfCourse(LedgerOf(trip.A), trip.C2) # 0
            /\ PositionOfCourse(LedgerOf(trip.A), trip.C1) = 0
            /\ PositionOfCourse(LedgerOf(trip.B), trip.C1) # 0
            /\ PositionOfCourse(LedgerOf(trip.B), trip.C2) = 0
            /\ ~InEscrow(trip.A, trip.C1)
            /\ ~InEscrow(trip.B, trip.C2)

\* C5 as claimed: no propose_swap call and no counter_swap_proposal call,
\* whatever it returns, changes the number of tokens in the system.
C5_EscrowConservesTokens ==
    [][/\ \A caller \in Account, c \in CourseId :
            propose_swap(caller, c) => TotalTokens' = TotalTokens
       /\ \A caller \in Account, c \in CourseId, offerer \in Account,
             cc \in CourseId :
            counter_swap_proposal(caller, c, offerer, cc)
                => TotalTokens' = TotalTokens
      ]_vars

\* C6 as claimed: an accept_counter_offer call that returns Ok takes exactly
\* two tokens out of escrow and adds exactly two to the ledger, so the total
\* is unchanged, however many counter-offers the proposal holds.
C6_AcceptConsumesTwoMintsTwo ==
    [][\A x \in AcceptArgs :
        (/\ accept_counter_offer(x[1], x[2], x[3], x[4])
         /\ accept_counter_offer_outcome(x[1], x[2], x[3], x[4]).res = "Ok")
        => /\ EscrowCount' = EscrowCount - 2
           /\ LedgerCount' = LedgerCount + 2
           /\ TotalTokens' = TotalTokens
      ]_vars

\* C7 as claimed: no ledger list holds two tokens for the same course.
C7_OneActiveTokenPerCourse ==
    \A a \in Account : \A i, j \in 1..Len(LedgerOf(a)) :
        LedgerOf(a)[i].course_id = LedgerOf(a)[j].course_id => i = j

\* C8 as claimed: a public operation that returns an error leaves the
\* membership, course, proposal and ledger tables as they were.
C8_ErrorChangesNothing ==
    [][/\ \A caller \in Account, account \in Account :
            /\ (admit_as_teacher(caller, account)
                  /\ admit_result(caller) # "Ok") => UNCHANGED tables
            /\ (admit_as_student(caller, account)
                  /\ admit_result(caller) # "Ok") => UNCHANGED tables
       /\ \A caller \in Account, c \in CourseId, cap \in Capacities,
             start \in Timestamps :
            (create_course(caller, c, cap, start)
               /\ create_course_result(caller) # "Ok") => UNCHANGED tables
       /\ \A caller \in Account, c \in CourseId :
            /\ (register_to_course(caller, c)
                  /\ register_to_course_result(caller, c) # "Ok")
               => UNCHANGED tables
            /\ (propose_swap(caller, c)
                  /\ propose_swap_result(caller, c) # "Ok")
               => UNCHANGED tables
       /\ \A x \in AcceptArgs :
            /\ (counter_swap_proposal(x[1], x[2], x[4], x[3])
                  /\ counter_swap_proposal_outcome(x[1], x[2], x[4], x[3]).res
                        # "Ok")
               => UNCHANGED tables
            /\ (accept_counter_offer(x[1], x[2], x[3], x[4])
                  /\ accept_counter_offer_outcome(x[1], x[2], x[3], x[4]).res
                        # "Ok")
               => UNCHANGED tables
      ]_vars

\* C9: for every course id, the tokens for it in the system (ledger lists,
\* offers, counter-offers) are at most the register_to_course calls on it
\* that have returned Ok.
C9_NoTokenDuplicated ==
    \A c \in CourseId : TokensFor(c) <= registered_ok[c]

\* C9 witness: after a swap (a0 holds a token for a course whose stored
\* roster it is not in) every token registered is still in the system.
C9_Witness ==
    /\ \E c \in DOMAIN courses :
          InLedger("a0", c) /\ ~Contains(Roster(c), "a0")
    /\ \A c \in CourseId : TokensFor(c) = registered_ok[c]
    /\ \A c \in DOMAIN courses : Len(Roster(c)) = registered_ok[c]

\* C10 as claimed: once a register_to_course(c) by a has returned Ok, the
\* next register_to_course(c) by a returns AlreadyRegistered.
C10_SecondRegistrationAlreadyRegistered ==
    watch.state = "resolved" => watch.res = "AlreadyRegistered"

\* C10 amended: once a register_to_course(c) by a has returned Ok, and as
\* long as create_course has stored no new course under c, the next
\* register_to_course(c) by a returns CourseCapacityFull when the stored
\* roster is full at that call and AlreadyRegistered otherwise.
C10_SecondRegistrationRejected ==
    (watch.state = "resolved" /\ ~watch.recreated) =>
        watch.res = IF watch.full THEN "CourseCapacityFull"
                    ELSE "AlreadyRegistered"

\* C10 witness: the second registration of an account to a course that is
\* not full and was not created again has just returned AlreadyRegistered.
C10_Witness ==
    /\ watch.state = "resolved" /\ ~watch.recreated /\ ~watch.full
    /\ watch.res = "AlreadyRegistered"
    /\ Contains(Roster(watch.c), watch.a)
    /\ Len(Roster(watch.c)) < courses[watch.c].capacity

\* The reference of C11: the first failing check, in the order of the
\* specification, or Ok.
RegisterReference(caller, c) ==
    IF caller \notin DOMAIN school_members THEN "InsufficientPermissions"
    ELSE IF c \notin DOMAIN courses THEN "NonexistentCourse"
    ELSE IF Len(Roster(c)) >= courses[c].capacity THEN "CourseCapacityFull"
    ELSE IF \E i \in 1..Len(Roster(c)) : Roster(c)[i] = caller
         THEN "AlreadyRegistered"
    ELSE IF now >= courses[c].start_date THEN "CourseAlreadyStarted"
    ELSE "Ok"

\* C11: register_to_course returns what the reference returns; when that is
\* Ok the caller is appended at the end of the course's roster and one token
\* {caller, course} at the end of the caller's ledger list, and nothing else
\* changes; otherwise nothing changes.
C11_RegisterIsReference ==
    /\ [](\A caller \in Account, c \in CourseId :
            register_to_course_result(caller, c) = RegisterReference(caller, c))
    /\ [][\A caller \in Account, c \in CourseId :
        register_to_course(caller, c) =>
          /\ register_to_course_result(caller, c) = RegisterReference(caller, c)
          /\ IF RegisterReference(caller, c) = "Ok"
             THEN /\ DOMAIN courses' = DOMAIN courses
                  /\ courses'[c] = [courses[c] EXCEPT
                                      !.registrations = Append(@, caller)]
                  /\ \A k \in DOMAIN courses \ {c} : courses'[k] = courses[k]
                  /\ DOMAIN registrations' = DOMAIN registrations \cup {caller}
                  /\ registrations'[caller] =
                        Append(LedgerOf(caller), CourseRegistration(caller, c))
                  /\ \A a \in DOMAIN registrations \ {caller} :
                        registrations'[a] = registrations[a]
                  /\ UNCHANGED <<school_members, swaps>>
             ELSE UNCHANGED tables
      ]_vars

\* C11 witness: a1 has registered second to a course of capacity 2 and is
\* the last of its roster, with the token in its ledger list.
C11_Witness ==
    \E c \in DOMAIN courses :
        /\ registered_ok[c] = 2
        /\ Roster(c) = <<"a0", "a1">>
        /\ LedgerOf("a1") = <<CourseRegistration("a1", c)>>

\* C12: a register_to_course on a course whose start date is now or has
\* passed never returns Ok and adds neither a roster entry nor a token; it
\* returns CourseAlreadyStarted when the caller is a member and the course
\* is not full and does not hold the caller.
C12_NoRegistrationFromStartDate ==
    /\ [](\A caller \in Account, c \in DOMAIN courses :
            now >= courses[c].start_date =>
              /\ register_to_course_result(caller, c) # "Ok"
              /\ ( /\ caller \in DOMAIN school_members
                   /\ Len(Roster(c)) < courses[c].capacity
                   /\ ~Contains(Roster(c), caller)
                   => register_to_course_result(caller, c)
                        = "CourseAlreadyStarted" ))
    /\ [][\A caller \in Account, c \in DOMAIN courses :
            register_to_course(caller, c) /\ now >= courses[c].start_date
              => UNCHANGED <<courses, registrations>>
       ]_vars

\* C12 witness: a register_to_course has just returned CourseAlreadyStarted
\* where both accounts are members and the one stored course has started
\* before now and has an empty roster.
C12_Witness ==
    /\ last.op = "register_to_course" /\ last.res = "CourseAlreadyStarted"
    /\ DOMAIN school_members = Account
    /\ \E c \in CourseId :
          /\ DOMAIN courses = {c}
          /\ now > courses[c].start_date
          /\ Roster(c) = <<>>

\* The positions of the tokens for course c in the ledger list of a.
TokenPositions(a, c) ==
    {i \in 1..Len(LedgerOf(a)) : LedgerOf(a)[i].course_id = c}

\* The first of them (for a list that holds one).
FirstTokenPosition(a, c) ==
    CHOOSE i \in TokenPositions(a, c) : \A j \in TokenPositions(a, c) : i <= j

\* C13: propose_swap returns NoSwappableRegistrations and changes nothing
\* when the caller's ledger list holds no token for the course; otherwise it
\* returns Ok, takes the first such token out of the caller's list and puts
\* one proposal {that token, no counter-offers} at the end of the course's
\* proposal list, the proposals already there unchanged and in order.
C13_ProposeEscrowsFirstToken ==
    /\ [](\A caller \in Account, c \in CourseId :
            propose_swap_result(caller, c) =
              IF TokenPositions(caller, c) = {}
              THEN "NoSwappableRegistrations" ELSE "Ok")
    /\ [][\A caller \in Account, c \in CourseId :
            propose_swap(caller, c) =>
              IF TokenPositions(caller, c) = {}
              THEN UNCHANGED tables
              ELSE LET i == FirstTokenPosition(caller, c)
                       l == LedgerOf(caller)
                   IN /\ DOMAIN registrations' = DOMAIN registrations
                      /\ registrations'[caller] =
                            SubSeq(l, 1, i - 1) \o SubSeq(l, i + 1, Len(l))
                      /\ \A a \in DOMAIN registrations \ {caller} :
                            registrations'[a] = registrations[a]
                      /\ DOMAIN swaps' = DOMAIN swaps \cup {c}
                      /\ swaps'[c] =
                            Append(ProposalsOf(c),
                                   [offer |-> l[i], counter_offers |-> <<>>])
                      /\ \A k \in DOMAIN swaps \ {c} : swaps'[k] = swaps[k]
       ]_vars

\* C13 witness: a0 and then a1 have offered their seats of one course; the
\* two proposals stand in that order and both ledger lists are empty.
C13_Witness ==
    \E c \in DOMAIN swaps :
        /\ swaps[c] =
             << [offer |-> CourseRegistration("a0", c), counter_offers |-> <<>>],
                [offer |-> CourseRegistration("a1", c), counter_offers |-> <<>>] >>
        /\ registered_ok[c] = 2
        /\ LedgerOf("a0") = <<>> /\ LedgerOf("a1") = <<>>

\* new holds every proposal of old at its place, with its offer and, as a
\* prefix, its counter-offers.
Extended(old, new) ==
    /\ Len(new) >= Len(old)
    /\ \A i \in 1..Len(old) :
          /\ new[i].offer = old[i].offer
          /\ Len(new[i].counter_offers) >= Len(old[i].counter_offers)
          /\ SubSeq(new[i].counter_offers, 1, Len(old[i].counter_offers))
                = old[i].counter_offers

\* The proposals of a list that are not offers of account a, in order.
ProposalsOfOthers(proposals, a) ==
    LET other(p) == p.offer.owner # a IN SelectSeq(proposals, other)

\* C14: a step takes a proposal out of the list of course k only when it is
\* an accept_counter_offer on k by the owner of the proposal's offer; any
\* other step, and an accept by another caller or on another course, keeps
\* the proposal, its offer, its counter-offers in order and its place among
\* the other proposals.
C14_ProposalRemovedOnlyByOwnersAccept ==
    [][ /\ DOMAIN swaps \subseteq DOMAIN swaps'
        /\ \A k \in DOMAIN swaps :
              \/ Extended(swaps[k], swaps'[k])
              \/ \E x \in AcceptArgs :
                    /\ x[2] = k
                    /\ accept_counter_offer(x[1], x[2], x[3], x[4])
                    /\ ProposalsOfOthers(swaps'[k], x[1])
                          = ProposalsOfOthers(swaps[k], x[1])
      ]_vars

\* C14 witness: the proposal of a0 has been countered by a1 and stands in
\* its list with its offer, while a1's token is in it as a counter-offer.
C14_Witness ==
    \E k \in DOMAIN swaps, c \in CourseId :
        /\ swaps[k] = << [offer |-> CourseRegistration("a0", k),
                          counter_offers |-> <<CourseRegistration("a1", c)>>] >>
        /\ LedgerOf("a1") = <<>>

\* The tokens there can be: one value per owner and course.
Token == {CourseRegistration(a, c) : a \in Account, c \in CourseId}

\* How many times the token t is held: in the ledger lists, and in the
\* ledger lists and the pending proposals together.
HeldInLedgers(t) == Cardinality({s \in LedgerSlots : LedgerToken(s) = t})

Held(t) ==
    HeldInLedgers(t)
    + Cardinality({s \in OfferSlots : OfferToken(s) = t})
    + Cardinality({s \in CounterSlots : CounterToken(s) = t})

\* How many times t is in the proposal prop, and how many times the swap x
\* hands it out.
HeldInProposal(prop, t) ==
    (IF prop.offer = t THEN 1 ELSE 0)
    + Cardinality({j \in 1..Len(prop.counter_offers) : prop.counter_offers[j] = t})

HandedOutBy(x, t) ==
    (IF t = CourseRegistration(x[1], x[3]) THEN 1 ELSE 0)
    + (IF t = CourseRegistration(x[4], x[2]) THEN 1 ELSE 0)

\* C15: a successful accept_counter_offer takes the counter-offers it does
\* not accept out of the system with the proposal: such a token is held, in
\* the ledger lists and the proposals together, only as often as it was held
\* outside the proposal, plus what the swap itself hands out; and no step
\* but a successful register_to_course of its owner on its course, or an
\* accept_counter_offer that hands it out, puts a token in a ledger list.
C15_UnacceptedCounterOffersLost ==
    [][ /\ \A x \in AcceptArgs :
              ( /\ accept_counter_offer(x[1], x[2], x[3], x[4])
                /\ accept_counter_offer_outcome(x[1], x[2], x[3], x[4]).res = "Ok" )
              => LET proposals == swaps[x[2]]
                     prop == proposals[PositionOfOfferOwner(proposals, x[1])]
                     others == Remove(prop.counter_offers,
                                  PositionOfCounter(prop.counter_offers, x[4], x[3]))
                 IN \A t \in Token :
                       Contains(others, t) =>
                          Held(t)' = Held(t) - HeldInProposal(prop, t)
                                       + HandedOutBy(x, t)
        /\ \A t \in Token :
              HeldInLedgers(t)' > HeldInLedgers(t) =>
                 \/ /\ register_to_course(t.owner, t.course_id)
                    /\ register_to_course_result(t.owner, t.course_id) = "Ok"
                    /\ HeldInLedgers(t)' = HeldInLedgers(t) + 1
                 \/ \E x \in AcceptArgs :
                       /\ accept_counter_offer(x[1], x[2], x[3], x[4])
                       /\ HeldInLedgers(t)' = HeldInLedgers(t) + HandedOutBy(x, t)
      ]_vars

\* C15 witness: an accept_counter_offer has just returned Ok on a proposal
\* that held another counter-offer, and that token is in no ledger list and
\* in no proposal.
C15_Witness ==
    /\ last.op = "accept_counter_offer" /\ last.res = "Ok"
    /\ last.dropped # <<>>
    /\ \A j \in 1..Len(last.dropped) : Held(last.dropped[j]) = 0

\* The step is a successful register_to_course on course c.
RegisteredTo(c) ==
    \E caller \in Account :
        /\ register_to_course(caller, c)
        /\ register_to_course_result(caller, c) = "Ok"

\* The step is a successful accept_counter_offer that involves course c.
AcceptedOn(c) ==
    \E x \in AcceptArgs :
        /\ c \in {x[2], x[3]}
        /\ accept_counter_offer(x[1], x[2], x[3], x[4])
        /\ accept_counter_offer_outcome(x[1], x[2], x[3], x[4]).res = "Ok"

\* The step is a successful create_course on the id c.
CreatedAgain(c) ==
    \E caller \in Account, course_cap \in Capacities, course_start \in Timestamps :
        /\ create_course(caller, c, course_cap, course_start)
        /\ create_course_result(caller) = "Ok"

\* C16 as claimed: no stored course is ever deleted, so that get_course_info
\* on its id keeps returning Ok, and its roster changes only in a successful
\* register_to_course on it or a successful accept_counter_offer that
\* involves it.
C16_RosterChangesOnlyByRegisterOrAccept ==
    [][\A c \in DOMAIN courses :
          /\ c \in DOMAIN courses'
          /\ get_course_info(c)' # "NonexistentCourse"
          /\ courses'[c].registrations # courses[c].registrations
                => RegisteredTo(c) \/ AcceptedOn(c)
      ]_vars

\* C16, amended: no stored course is ever deleted, so that get_course_info
\* on its id keeps returning Ok, and its roster changes only in a successful
\* register_to_course on it, a successful accept_counter_offer that involves
\* it, or a successful create_course on its id, which empties it.
C16_RosterChangesOnlyByRegisterAcceptOrCreate ==
    [][\A c \in DOMAIN courses :
          /\ c \in DOMAIN courses'
          /\ get_course_info(c)' # "NonexistentCourse"
          /\ courses'[c].registrations # courses[c].registrations
                => \/ RegisteredTo(c)
                   \/ AcceptedOn(c)
                   \/ CreatedAgain(c) /\ courses'[c].registrations = <<>>
      ]_vars

\* C16 witness: a course that accounts have registered to is stored with an
\* empty roster, its id having been created again.
C16_Witness ==
    \E c \in DOMAIN courses :
        /\ registered_ok[c] >= 1
        /\ Roster(c) = <<>>
        /\ get_course_info(c) = "Ok"

\* The account is stored as a member with the teacher role.
TeacherNow(a) == a \in DOMAIN school_members /\ school_members[a] = TRUE

\* C17: create_course by a caller that is not a teacher returns
\* InsufficientPermissions and leaves the course table as it was; a course
\* is created or overwritten only by a create_course of a caller that is a
\* teacher when it calls, and that caller is stored as the course's teacher.
C17_OnlyTeachersCreateCourses ==
    /\ [](\A caller \in Account :
            create_course_result(caller) =
              IF TeacherNow(caller) THEN "Ok" ELSE "InsufficientPermissions")
    /\ [][ /\ \A caller \in Account, c \in CourseId, course_cap \in Capacities,
                course_start \in Timestamps :
                create_course(caller, c, course_cap, course_start) =>
                   IF TeacherNow(caller)
                   THEN /\ c \in DOMAIN courses'
                        /\ courses'[c].teacher = caller
                   ELSE UNCHANGED courses
           /\ \A c \in DOMAIN courses' :
                (c \notin DOMAIN courses \/ courses'[c] # courses[c]) =>
                   \/ RegisteredTo(c)
                   \/ \E caller \in Account, course_cap \in Capacities,
                         course_start \in Timestamps :
                         /\ TeacherNow(caller)
                         /\ create_course(caller, c, course_cap, course_start)
                         /\ courses'[c].teacher = caller
       ]_vars

\* C17 witness: a course is stored with the teacher a1, who created it as a
\* teacher and is a student by now.
C17_Witness ==
    \E c \in DOMAIN courses :
        /\ courses[c].teacher = "a1"
        /\ "a1" \in DOMAIN school_members /\ school_members["a1"] = FALSE

\* C18: admit_as_teacher(x) and admit_as_student(x) return Ok to the owner
\* and InsufficientPermissions to any other caller; after the owner's
\* admit_as_teacher(x), x is a member and a teacher; after the owner's
\* admit_as_student(x), x is a member and not a teacher, whoever x was; the
\* call of another caller leaves the members as they were.
C18_OwnerAdmits ==
    /\ [](\A caller \in Account :
            admit_result(caller) =
              IF caller = owner THEN "Ok" ELSE "InsufficientPermissions")
    /\ [][\A caller \in Account, x \in Account :
            /\ admit_as_teacher(caller, x) =>
                  IF caller = owner
                  THEN is_school_member_inner(x)' /\ is_teacher_inner(x)'
                  ELSE UNCHANGED school_members
            /\ admit_as_student(caller, x) =>
                  IF caller = owner
                  THEN is_school_member_inner(x)' /\ ~is_teacher_inner(x)'
                  ELSE UNCHANGED school_members
       ]_vars

\* C18 witness: the owner a0 has admitted a1 as a teacher and itself as a
\* student.
C18_Witness ==
    /\ owner = "a0"
    /\ DOMAIN school_members = {"a0", "a1"}
    /\ school_members["a1"] = TRUE
    /\ school_members["a0"] = FALSE

\* The first pending proposal on course c whose offer account a owns, for a
\* list that holds one.
PendingProposalOf(a, c) ==
    LET own == {i \in 1..Len(ProposalsOf(c)) : ProposalsOf(c)[i].offer.owner = a}
    IN ProposalsOf(c)[CHOOSE i \in own : \A j \in own : i <= j]

HasPendingProposal(a, c) ==
    \E i \in 1..Len(ProposalsOf(c)) : ProposalsOf(c)[i].offer.owner = a

\* The call x of accept_counter_offer finds the caller's proposal and, in it,
\* a counter-offer of the accepted owner for the accepted course.
FindsMatch(x) ==
    /\ HasPendingProposal(x[1], x[2])
    /\ Contains(PendingProposalOf(x[1], x[2]).counter_offers,
                CourseRegistration(x[4], x[3]))

\* C19 as claimed: an accept_counter_offer that finds the caller's proposal
\* and a matching counter-offer returns Ok; none hands out the two tokens and
\* then returns NoProposedSwap.
C19_MatchedAcceptReturnsOk ==
    [][\A x \in AcceptArgs :
          accept_counter_offer(x[1], x[2], x[3], x[4]) /\ FindsMatch(x)
            => accept_counter_offer_outcome(x[1], x[2], x[3], x[4]).res = "Ok"
      ]_vars

\* The list of proposals without the first one whose offer account a owns.
WithoutFirstOf(proposals, a) ==
    LET own == {i \in 1..Len(proposals) : proposals[i].offer.owner = a}
        first == CHOOSE i \in own : \A j \in own : i <= j
    IN SubSeq(proposals, 1, first - 1)
         \o SubSeq(proposals, first + 1, Len(proposals))

\* C20: an accept_counter_offer of a caller that has a pending proposal on
\* the offered course, with no counter-offer of the accepted owner for the
\* accepted course in it, returns NoProposedSwap and takes the proposal, its
\* offer and all its counter-offers, out of the pending list; no ledger list
\* and no roster changes.
C20_UnmatchedAcceptDropsProposal ==
    /\ [](\A x \in AcceptArgs :
            HasPendingProposal(x[1], x[2]) /\ ~FindsMatch(x) =>
               accept_counter_offer_outcome(x[1], x[2], x[3], x[4]).res
                  = "NoProposedSwap")
    /\ [][\A x \in AcceptArgs :
            ( /\ accept_counter_offer(x[1], x[2], x[3], x[4])
              /\ HasPendingProposal(x[1], x[2]) /\ ~FindsMatch(x) )
            => /\ DOMAIN swaps' = DOMAIN swaps
               /\ swaps'[x[2]] = WithoutFirstOf(swaps[x[2]], x[1])
               /\ \A k \in DOMAIN swaps \ {x[2]} : swaps'[k] = swaps[k]
               /\ UNCHANGED <<registrations, courses>>
       ]_vars

\* C20 witness: an accept_counter_offer has just returned NoProposedSwap;
\* the one seat ever registered was offered in a proposal, and neither the
\* proposal nor any token is left.
C20_Witness ==
    /\ last.op = "accept_counter_offer" /\ last.res = "NoProposedSwap"
    /\ TotalRegistered = 1 /\ TotalTokens = 0
    /\ \E c \in DOMAIN swaps : swaps[c] = <<>> /\ registered_ok[c] = 1

\* The position of the first proposal of a list whose offer account a owns,
\* for a list that holds one.
FirstProposalOf(proposals, a) ==
    CHOOSE i \in 1..Len(proposals) :
        /\ proposals[i].offer.owner = a
        /\ \A j \in 1..(i - 1) : proposals[j].offer.owner # a

\* C21: a successful counter_swap_proposal(target, offerer, counter) puts
\* the caller's token for counter at the end of the counter-offers of the
\* first proposal under target whose offer the offerer owns, and changes no
\* other proposal; an accept_counter_offer of a caller with a proposal under
\* the offered course takes the first such proposal out of the list and
\* leaves the later ones, also those of the caller, in it.
C21_FirstMatchingProposal ==
    [][ /\ \A caller \in Account, target \in CourseId, offerer \in Account,
             counter \in CourseId :
             ( /\ counter_swap_proposal(caller, target, offerer, counter)
               /\ counter_swap_proposal_outcome(caller, target, offerer,
                                                counter).res = "Ok" )
             => LET first == FirstProposalOf(swaps[target], offerer)
                    token == LedgerOf(caller)[FirstTokenPosition(caller, counter)]
                IN /\ DOMAIN swaps' = DOMAIN swaps
                   /\ Len(swaps'[target]) = Len(swaps[target])
                   /\ swaps'[target][first].offer = swaps[target][first].offer
                   /\ swaps'[target][first].counter_offers =
                         Append(swaps[target][first].counter_offers, token)
                   /\ \A i \in 1..Len(swaps[target]) :
                         i # first => swaps'[target][i] = swaps[target][i]
                   /\ \A k \in DOMAIN swaps \ {target} : swaps'[k] = swaps[k]
        /\ \A x \in AcceptArgs :
             ( /\ accept_counter_offer(x[1], x[2], x[3], x[4])
               /\ HasPendingProposal(x[1], x[2]) )
             => LET first == FirstProposalOf(swaps[x[2]], x[1])
                IN /\ Len(swaps'[x[2]]) = Len(swaps[x[2]]) - 1
                   /\ \A i \in 1..Len(swaps'[x[2]]) :
                         swaps'[x[2]][i] =
                            swaps[x[2]][IF i < first THEN i ELSE i + 1]
      ]_vars

\* C21 witness: two proposals of one owner stand under one course; the
\* first holds the counter-offer that named the owner, the second none.
C21_Witness ==
    \E k \in DOMAIN swaps :
        /\ Len(swaps[k]) = 2
        /\ swaps[k][1].offer.owner = swaps[k][2].offer.owner
        /\ Len(swaps[k][1].counter_offers) = 1
        /\ swaps[k][2].counter_offers = <<>>

\* C22: create_course by a teacher on an id that holds a course returns Ok
\* and stores, in place of that course, one with the caller as teacher, the
\* new capacity and start date and an empty roster; the other courses, every
\* ledger list and every proposal list are as they were.
C22_CreateOverwritesCourseOnly ==
    /\ [](\A caller \in Account :
            TeacherNow(caller) => create_course_result(caller) = "Ok")
    /\ [][\A caller \in Account, c \in DOMAIN courses,
             course_cap \in Capacities, course_start \in Timestamps :
             ( /\ create_course(caller, c, course_cap, course_start)
               /\ TeacherNow(caller) )
             => /\ DOMAIN courses' = DOMAIN courses
                /\ courses'[c] = [teacher |-> caller, course_id |-> c,
                                  capacity |-> course_cap,
                                  registrations |-> <<>>,
                                  start_date |-> course_start]
                /\ \A k \in DOMAIN courses \ {c} : courses'[k] = courses[k]
                /\ UNCHANGED <<registrations, swaps>>
       ]_vars

\* C22 witness: a course that an account registered to is stored with the
\* teacher a1 and an empty roster, and the token of that registration is
\* still in a ledger list or a proposal.
C22_Witness ==
    \E c \in DOMAIN courses :
        /\ registered_ok[c] = 1
        /\ Roster(c) = <<>>
        /\ courses[c].teacher = "a1"
        /\ TokensFor(c) = 1

\* C23 as claimed: for every stored course, the tokens for it in the ledger
\* lists and the proposals together are at most its capacity.
C23_NoOverbooking ==
    \A c \in DOMAIN courses : TokensFor(c) <= courses[c].capacity

\* C23, amended: the same for every stored course whose id create_course
\* has not overwritten.
C23_NoOverbookingUnlessRecreated ==
    \A c \in DOMAIN courses \ recreated : TokensFor(c) <= courses[c].capacity

\* C23 witness: after the other course id was overwritten, a course created
\* once has as many tokens as seats, two, both from registrations.
C23_Witness ==
    \E c \in DOMAIN courses \ recreated :
        /\ recreated # {}
        /\ courses[c].capacity = 2
        /\ TokensFor(c) = 2
        /\ registered_ok[c] = 2

====
